---- MODULE Spec2Model ----
(***************************************************************************)
(* A model of legacy/common/flake8_compat.py: the adapter that lets the    *)
(* lint framework reuse flake8's checks on a caller-supplied context       *)
(* (source bytes, syntax tree, tokens) and collects flake8's violations    *)
(* into a list.                                                            *)
(*                                                                         *)
(* Three specifications share the module:                                  *)
(*   Spec       the application, its formatter and its checker manager     *)
(*   SpecProc   the file processor over a caller-supplied context          *)
(*   SpecCache  get_cached_application_instance called from threads        *)
(***************************************************************************)
EXTENDS Integers, Sequences, FiniteSets, TLC

\* ------------------------------------------------------------------ bounds

\* Longest accumulator explored (handle calls between two resets).
MaxAcc == 3
\* Longest context.source explored, in byte units.
MaxSrc == 3
\* Longest context.tokens explored.
MaxTokens == 3
\* Threads of one worker process that call get_cached_application_instance.
NumThreads == 3
\* Calls each thread makes.
MaxCalls == 2
\* Number of Flake8CompatCheckerManager objects reset may create in one run.
MaxResets == 3
\* Largest configured job count (options.jobs).
MaxJobs == 2

\* The violation objects the style guide may hand to the formatter.
Violations == {"E501", "W291"}
\* The caller's contexts, one per linted file.
Contexts == {"ctxA", "ctxB"}

None == "None"

VARIABLES
    \* ---- Flake8CompatApplication and what hangs off it (Spec)
    accumulator,          \* the list created in __init__, shared with the formatter
    formatter,            \* None, or the class of the formatter object
    file_checker_manager, \* <<>> before the first reset, then <<manager>>
    guide, args, check_plugins, \* application attributes reset reads
    jobs, mp_supported,   \* options.jobs, and whether the interpreter can fork pools
    io_log,               \* files opened and lines written by the adapter
    next_id,              \* identities handed out to manager objects so far
    error,                \* the exception the last operation raised, or None
    last_op, last_arg,    \* the operation just executed and its argument
    handled,              \* history: arguments of handle since the last reset
    \* ---- Flake8CompatFileProcessor and its context (SpecProc)
    context,              \* the caller's PseudoContext: source, ast_tree, tokens
    context0,             \* history: the context as the caller supplied it
    disk_file,            \* the bytes of the file the processor's filename names
    file_read,            \* whether the processor has read disk_file
    processor,            \* the processor: its construction state and self.lines
    p_op, p_result,       \* the processor operation just executed and its result
    tokens_seen,          \* history: distinct outcomes of file_tokens so far
    \* ---- get_cached_application_instance and its callers (SpecCache)
    cache,                \* the lru_cache slot: <<>> or <<application>>
    n_apps,               \* Flake8CompatApplication objects constructed so far
    initialized,          \* per application, the argument lists initialize got
    t_pc,                 \* per thread, where its call stands
    t_app,                \* per thread, the application its call is building
    t_calls,              \* per thread, the calls it has completed
    returned              \* history: the applications returned to callers

appState == <<accumulator, formatter, file_checker_manager, guide, args,
              check_plugins, jobs, mp_supported, io_log, next_id>>
appVars == <<accumulator, formatter, file_checker_manager, guide, args,
             check_plugins, jobs, mp_supported, io_log, next_id, error,
             last_op, last_arg, handled>>

procVars == <<context, context0, disk_file, file_read, processor, p_op,
              p_result, tokens_seen>>

cacheVars == <<cache, n_apps, initialized, t_pc, t_app, t_calls, returned>>

vars == <<appVars, procVars, cacheVars>>

\* ------------------------------------------- Flake8CompatAccumulatingFormatter

\* A formatter that drops a violation it has already seen.
handle_dedup(acc, err) ==
    IF \E i \in 1..Len(acc) : acc[i] = err THEN acc ELSE Append(acc, err)

\* handle: self.accumulator.append(error)
handle(acc, err) == Append(acc, err)

\* start: pass
start(io) == io

\* stop: pass
stop(io) == io

\* flake8's BaseFormatter.write prints the line and the source it is given.
write_base(io, line, source) ==
    io \cup (IF line = None THEN {} ELSE {"write_line"})
       \cup (IF source = None THEN {} ELSE {"write_source"})

\* write: pass
write(io, line, source) == io

\* ----------------------------------------------------- Flake8CompatApplication

\* report_statistics: pass
report_statistics(io) == io

\* report_benchmarks: pass
report_benchmarks(io) == io

FormatterClass == "Flake8CompatAccumulatingFormatter"

\* make_formatter: the requested class is ignored
make_formatter(formatter_class) == FormatterClass

\* flake8's Manager computes its job count: 0 when pools are unsupported.
ManagerJobs == IF mp_supported THEN jobs ELSE 0

\* A reset that keeps the manager of the previous file when there is one.
NewManager_stale(id, ctx) ==
    IF file_checker_manager = <<>>
        THEN [id |-> id, context |-> ctx, style_guide |-> guide,
              arguments |-> args, checker_plugins |-> check_plugins,
              jobs |-> ManagerJobs, checkers |-> <<>>, mode |-> "idle"]
        ELSE [file_checker_manager[1] EXCEPT !.id = id, !.checkers = <<>>,
                                             !.mode = "idle"]

\* Flake8CompatCheckerManager.__init__ as reset calls it
NewManager(id, ctx) ==
    [id |-> id, context |-> ctx, style_guide |-> guide,
     arguments |-> args, checker_plugins |-> check_plugins,
     jobs |-> ManagerJobs, checkers |-> <<>>, mode |-> "idle"]

\* reset: self.accumulator.clear()
clear(acc) == <<>>

\* flake8's Manager.run: a process pool when more than one job is configured.
run_base(mgr) ==
    [mgr EXCEPT !.mode = IF mgr.jobs > 1 THEN "parallel" ELSE "serial"]

\* Flake8CompatCheckerManager.run: self.run_serial()
run(mgr) == [mgr EXCEPT !.mode = "serial"]

\* The path lists flake8 may pass to make_checkers (or no list at all).
PathArgs == {<<>>, <<"a.py">>, <<"a.py", "b.py">>}

\* make_checkers: one Flake8CompatFileChecker for paths[0], kept if it
\* should be processed
make_checkers(mgr, paths, should_process) ==
    [mgr EXCEPT !.checkers =
        IF should_process
            THEN <<[filename |-> paths[1], context |-> mgr.context]>>
            ELSE <<>>]

\* ------------------------------------------------------------ actions (Spec)

Handle ==
    /\ formatter # None
    /\ Len(accumulator) < MaxAcc
    /\ \E v \in Violations :
        /\ accumulator' = handle(accumulator, v)
        /\ handled' = Append(handled, v)
        /\ last_arg' = <<v>>
    /\ last_op' = "handle"
    /\ error' = None
    /\ UNCHANGED <<formatter, file_checker_manager, guide, args, check_plugins,
                   jobs, mp_supported, io_log, next_id>>

Start ==
    /\ formatter # None
    /\ io_log' = start(io_log)
    /\ last_op' = "start"
    /\ last_arg' = <<>>
    /\ error' = None
    /\ UNCHANGED <<accumulator, formatter, file_checker_manager, guide, args,
                   check_plugins, jobs, mp_supported, next_id, handled>>

Stop ==
    /\ formatter # None
    /\ io_log' = stop(io_log)
    /\ last_op' = "stop"
    /\ last_arg' = <<>>
    /\ error' = None
    /\ UNCHANGED <<accumulator, formatter, file_checker_manager, guide, args,
                   check_plugins, jobs, mp_supported, next_id, handled>>

Write ==
    /\ formatter # None
    /\ \E line \in {None, "E501 line too long"}, source \in {None, "x = 1"} :
        /\ io_log' = write(io_log, line, source)
        /\ last_arg' = <<line, source>>
    /\ last_op' = "write"
    /\ error' = None
    /\ UNCHANGED <<accumulator, formatter, file_checker_manager, guide, args,
                   check_plugins, jobs, mp_supported, next_id, handled>>

ReportStatistics ==
    /\ io_log' = report_statistics(io_log)
    /\ last_op' = "report_statistics"
    /\ last_arg' = <<>>
    /\ error' = None
    /\ UNCHANGED <<accumulator, formatter, file_checker_manager, guide, args,
                   check_plugins, jobs, mp_supported, next_id, handled>>

ReportBenchmarks ==
    /\ io_log' = report_benchmarks(io_log)
    /\ last_op' = "report_benchmarks"
    /\ last_arg' = <<>>
    /\ error' = None
    /\ UNCHANGED <<accumulator, formatter, file_checker_manager, guide, args,
                   check_plugins, jobs, mp_supported, next_id, handled>>

MakeFormatter ==
    /\ \E formatter_class \in {None, "default", "pylint"} :
        /\ formatter' = make_formatter(formatter_class)
        /\ last_arg' = <<formatter_class>>
    /\ last_op' = "make_formatter"
    /\ error' = None
    /\ UNCHANGED <<accumulator, file_checker_manager, guide, args,
                   check_plugins, jobs, mp_supported, io_log, next_id, handled>>

Reset ==
    /\ next_id < MaxResets
    /\ \E ctx \in Contexts :
        /\ file_checker_manager' = <<NewManager(next_id, ctx)>>
        /\ last_arg' = <<ctx>>
    /\ next_id' = next_id + 1
    /\ accumulator' = clear(accumulator)
    /\ handled' = <<>>
    /\ last_op' = "reset"
    /\ error' = None
    /\ UNCHANGED <<formatter, guide, args, check_plugins, jobs, mp_supported,
                   io_log>>

Run ==
    /\ file_checker_manager # <<>>
    /\ file_checker_manager' = <<run(file_checker_manager[1])>>
    /\ last_op' = "run"
    /\ last_arg' = <<>>
    /\ error' = None
    /\ UNCHANGED <<accumulator, formatter, guide, args, check_plugins, jobs,
                   mp_supported, io_log, next_id, handled>>

MakeCheckers ==
    /\ file_checker_manager # <<>>
    /\ \E given \in BOOLEAN, paths \in PathArgs, should_process \in BOOLEAN :
        /\ last_arg' = IF given THEN paths ELSE <<None>>
        /\ IF ~given \/ Len(paths) # 1
            THEN /\ error' = "AssertionError"
                 /\ UNCHANGED file_checker_manager
            ELSE /\ error' = None
                 /\ file_checker_manager' =
                      <<make_checkers(file_checker_manager[1], paths,
                                      should_process)>>
    /\ last_op' = "make_checkers"
    /\ UNCHANGED <<accumulator, formatter, guide, args, check_plugins, jobs,
                   mp_supported, io_log, next_id, handled>>

InitApp ==
    /\ accumulator = <<>>
    /\ formatter = None
    /\ file_checker_manager = <<>>
    /\ guide = "style_guide"
    /\ args = <<>>
    /\ check_plugins = "checker_plugins"
    /\ jobs \in 0..MaxJobs
    /\ mp_supported \in BOOLEAN
    /\ io_log = {}
    /\ next_id = 0
    /\ error = None
    /\ last_op = "init"
    /\ last_arg = <<>>
    /\ handled = <<>>

\* ------------------------------------------- get_cached_application_instance

Threads == 1..NumThreads
Apps == 1..(NumThreads * MaxCalls)

\* The one argument list the application is initialized with.
InitializeArgs == <<"--disable-noqa">>

\* lru_cache looks the key up; a hit returns the cached application, a miss
\* goes on to call the decorated function.
CacheLookup(t) ==
    /\ t_pc[t] = "idle"
    /\ t_calls[t] < MaxCalls
    /\ IF cache # <<>>
        THEN /\ returned' = returned \cup {cache[1]}
             /\ t_calls' = [t_calls EXCEPT ![t] = @ + 1]
             /\ UNCHANGED t_pc
        ELSE /\ t_pc' = [t_pc EXCEPT ![t] = "construct"]
             /\ UNCHANGED <<returned, t_calls>>
    /\ UNCHANGED <<cache, n_apps, initialized, t_app>>

\* application = Flake8CompatApplication()
ConstructApplication(t) ==
    /\ t_pc[t] = "construct"
    /\ n_apps' = n_apps + 1
    /\ t_app' = [t_app EXCEPT ![t] = n_apps + 1]
    /\ t_pc' = [t_pc EXCEPT ![t] = "initialize"]
    /\ UNCHANGED <<cache, initialized, t_calls, returned>>

\* application.initialize(["--disable-noqa"])
InitializeApplication(t) ==
    /\ t_pc[t] = "initialize"
    /\ initialized' = [initialized EXCEPT ![t_app[t]] = Append(@, InitializeArgs)]
    /\ t_pc' = [t_pc EXCEPT ![t] = "store"]
    /\ UNCHANGED <<cache, n_apps, t_app, t_calls, returned>>

\* return application: lru_cache stores the result unless the key was added
\* while the function ran, and returns the result it computed either way.
StoreAndReturn(t) ==
    /\ t_pc[t] = "store"
    /\ cache' = IF cache = <<>> THEN <<t_app[t]>> ELSE cache
    /\ returned' = returned \cup {t_app[t]}
    /\ t_calls' = [t_calls EXCEPT ![t] = @ + 1]
    /\ t_pc' = [t_pc EXCEPT ![t] = "idle"]
    /\ UNCHANGED <<n_apps, initialized, t_app>>

InitCache ==
    /\ cache = <<>>
    /\ n_apps = 0
    /\ initialized = [a \in Apps |-> <<>>]
    /\ t_pc = [t \in Threads |-> "idle"]
    /\ t_app = [t \in Threads |-> 0]
    /\ t_calls = [t \in Threads |-> 0]
    /\ returned = {}

\* --------------------------------------------------- Flake8CompatFileProcessor

\* Byte units of a source: the letter a, line feed, carriage return, the
\* UTF-8 byte order mark, the comment "# coding: latin-1 ", and byte E9
\* (e-acute in Latin-1, not valid UTF-8 on its own).
Bytes == {"x61", "x0A", "x0D", "BOM", "COOKIE_L1", "xE9"}

\* Token types of context.tokens.
TokenTypes == {"ENCODING", "NAME", "NEWLINE"}

\* Syntax trees the caller may have built.
Trees == {"tree1", "tree2"}

SeqsUpTo(S, n) == UNION {[1..k -> S] : k \in 0..n}

\* io.BytesIO(source).readline / StringIO.readlines: a line ends after the
\* first line feed only; a carriage return does not end it.
LineEnd(s, nl) ==
    IF \E i \in 1..Len(s) : s[i] = nl
        THEN CHOOSE i \in 1..Len(s) :
                /\ s[i] = nl
                /\ \A k \in 1..(i - 1) : s[k] # nl
        ELSE Len(s)

RECURSIVE SplitLines(_, _)
SplitLines(s, nl) ==
    IF s = <<>> THEN <<>>
    ELSE <<SubSeq(s, 1, LineEnd(s, nl))>>
            \o SplitLines(SubSeq(s, LineEnd(s, nl) + 1, Len(s)), nl)

\* tokenize.detect_encoding's find_cookie on one line: the line must be
\* valid UTF-8; a cookie counts only at the start of the line; with a byte
\* order mark any cookie other than utf-8 is an encoding problem.
FindCookie(line, bom_found) ==
    IF \E i \in 1..Len(line) : line[i] = "xE9" THEN "SyntaxError"
    ELSE IF line # <<>> /\ line[1] = "COOKIE_L1"
        THEN (IF bom_found THEN "SyntaxError" ELSE "iso-8859-1")
    ELSE None

\* tokenize.detect_encoding's blank_re: the line starts a comment or is empty
IsBlankLine(line) == line = <<>> \/ line[1] \in {"x0A", "x0D", "COOKIE_L1"}

\* tokenize.detect_encoding over io.BytesIO(source).readline
DetectEncoding(source) ==
    LET bom_found == source # <<>> /\ source[1] = "BOM"
        rest == IF bom_found THEN Tail(source) ELSE source
        default == IF bom_found THEN "utf-8-sig" ELSE "utf-8"
        first == SubSeq(rest, 1, LineEnd(rest, "x0A"))
        after == SubSeq(rest, Len(first) + 1, Len(rest))
        second == SubSeq(after, 1, LineEnd(after, "x0A"))
    IN  IF first = <<>> THEN default
        ELSE IF FindCookie(first, bom_found) # None
            THEN FindCookie(first, bom_found)
        ELSE IF ~IsBlankLine(first) THEN default
        ELSE IF second = <<>> THEN default
        ELSE IF FindCookie(second, bom_found) # None
            THEN FindCookie(second, bom_found)
        ELSE default

\* The characters one byte unit decodes to.
DecodeUnit(b, encoding) ==
    CASE b = "x61" -> <<"a">>
      [] b = "x0A" -> <<"LF">>
      [] b = "x0D" -> <<"CR">>
      [] b = "COOKIE_L1" -> <<"# coding: latin-1 ">>
      [] b = "BOM" -> IF encoding = "iso-8859-1"
                        THEN <<"i-diaeresis", "guillemet", "inverted-question">>
                        ELSE <<"U+FEFF">>
      [] b = "xE9" -> <<"e-acute">>

RECURSIVE DecodeUnits(_, _)
DecodeUnits(bs, encoding) ==
    IF bs = <<>> THEN <<>>
    ELSE DecodeUnit(Head(bs), encoding) \o DecodeUnits(Tail(bs), encoding)

\* bytes.decode(encoding): utf-8 rejects byte E9, utf-8-sig drops one
\* leading byte order mark, iso-8859-1 accepts every byte.
Decode(bs, encoding) ==
    IF encoding # "iso-8859-1" /\ \E i \in 1..Len(bs) : bs[i] = "xE9"
        THEN [error |-> "UnicodeDecodeError", text |-> <<>>]
    ELSE IF encoding = "utf-8-sig" /\ bs # <<>> /\ bs[1] = "BOM"
        THEN [error |-> None, text |-> DecodeUnits(Tail(bs), encoding)]
    ELSE [error |-> None, text |-> DecodeUnits(bs, encoding)]

\* detect the encoding of some bytes, decode them, split them into lines
LinesOf(bs) ==
    LET encoding == DetectEncoding(bs) IN
    IF encoding = "SyntaxError" THEN [error |-> "SyntaxError", lines |-> <<>>]
    ELSE LET decoded == Decode(bs, encoding) IN
         IF decoded.error # None THEN [error |-> decoded.error, lines |-> <<>>]
         ELSE [error |-> None, lines |-> SplitLines(decoded.text, "LF")]

\* flake8's FileProcessor.read_lines reads the file its filename names.
read_lines_base(ctx, disk) == [out |-> LinesOf(disk), file_read |-> TRUE]

\* read_lines: the lines of context.source
read_lines(ctx, disk) == [out |-> LinesOf(ctx.source), file_read |-> FALSE]

\* build_ast: return self.context.ast_tree
build_ast(ctx) == ctx.ast_tree

\* A file_tokens that drops every ENCODING token and never fails.
file_tokens_filter(ctx) ==
    [error |-> None,
     tokens |-> SelectSeq(ctx.tokens, LAMBDA t : t # "ENCODING"),
     ctx |-> ctx]

\* file_tokens: next() on an iterator over context.tokens, the assertion on
\* the token it yields, then the list of what the iterator has left
file_tokens(ctx) ==
    IF ctx.tokens = <<>>
        THEN [error |-> "StopIteration", tokens |-> <<>>, ctx |-> ctx]
    ELSE IF ctx.tokens[1] # "ENCODING"
        THEN [error |-> "AssertionError", tokens |-> <<>>, ctx |-> ctx]
    ELSE [error |-> None, tokens |-> Tail(ctx.tokens), ctx |-> ctx]

\* -------------------------------------------------------- actions (SpecProc)

\* __init__: the context is stored, then flake8's constructor calls read_lines
Construct ==
    /\ processor.state = "new"
    /\ LET r == read_lines(context, disk_file) IN
        /\ processor' = [state |-> IF r.out.error = None THEN "ready" ELSE "failed",
                         lines |-> r.out.lines]
        /\ file_read' = (file_read \/ r.file_read)
        /\ p_result' = r.out
    /\ p_op' = "__init__"
    /\ UNCHANGED <<context, context0, disk_file, tokens_seen>>

ReadLines ==
    /\ processor.state = "ready"
    /\ LET r == read_lines(context, disk_file) IN
        /\ file_read' = (file_read \/ r.file_read)
        /\ p_result' = r.out
    /\ p_op' = "read_lines"
    /\ UNCHANGED <<context, context0, disk_file, processor, tokens_seen>>

BuildAst ==
    /\ processor.state = "ready"
    /\ p_result' = [error |-> None, tree |-> build_ast(context)]
    /\ p_op' = "build_ast"
    /\ UNCHANGED <<context, context0, disk_file, file_read, processor,
                   tokens_seen>>

FileTokens ==
    /\ processor.state = "ready"
    /\ LET r == file_tokens(context) IN
        /\ p_result' = [error |-> r.error, tokens |-> r.tokens]
        /\ tokens_seen' = tokens_seen \cup {[error |-> r.error, tokens |-> r.tokens]}
        /\ context' = r.ctx
    /\ p_op' = "file_tokens"
    /\ UNCHANGED <<context0, disk_file, file_read, processor>>

\* The bytes on disk differ from every context.source explored.
DiskFile == <<"x61", "x0A", "x61", "x0A", "x61", "x0A", "x61", "x0A", "x61">>

InitProc ==
    /\ context \in [source : SeqsUpTo(Bytes, MaxSrc),
                    ast_tree : Trees,
                    tokens : SeqsUpTo(TokenTypes, MaxTokens)]
    /\ context0 = context
    /\ disk_file = DiskFile
    /\ file_read = FALSE
    /\ processor = [state |-> "new", lines |-> <<>>]
    /\ p_op = "none"
    /\ p_result = [error |-> None]
    /\ tokens_seen = {}

\* The processor before any context is supplied: the state Spec keeps it in.
IdleProc ==
    /\ context = [source |-> <<>>, ast_tree |-> "tree1", tokens |-> <<>>]
    /\ context0 = context
    /\ disk_file = DiskFile
    /\ file_read = FALSE
    /\ processor = [state |-> "new", lines |-> <<>>]
    /\ p_op = "none"
    /\ p_result = [error |-> None]
    /\ tokens_seen = {}

Init == InitApp /\ IdleProc /\ InitCache

Next ==
    \/ Handle /\ UNCHANGED <<procVars, cacheVars>>
    \/ Start /\ UNCHANGED <<procVars, cacheVars>>
    \/ Stop /\ UNCHANGED <<procVars, cacheVars>>
    \/ Write /\ UNCHANGED <<procVars, cacheVars>>
    \/ ReportStatistics /\ UNCHANGED <<procVars, cacheVars>>
    \/ ReportBenchmarks /\ UNCHANGED <<procVars, cacheVars>>
    \/ MakeFormatter /\ UNCHANGED <<procVars, cacheVars>>
    \/ Reset /\ UNCHANGED <<procVars, cacheVars>>
    \/ Run /\ UNCHANGED <<procVars, cacheVars>>
    \/ MakeCheckers /\ UNCHANGED <<procVars, cacheVars>>

Spec == Init /\ [][Next]_vars

\* The application before construction is used: the state SpecProc keeps it in.
IdleApp ==
    /\ InitApp
    /\ jobs = 0
    /\ mp_supported = FALSE

InitP == InitProc /\ IdleApp /\ InitCache

NextP ==
    \/ Construct /\ UNCHANGED <<appVars, cacheVars>>
    \/ ReadLines /\ UNCHANGED <<appVars, cacheVars>>
    \/ BuildAst /\ UNCHANGED <<appVars, cacheVars>>
    \/ FileTokens /\ UNCHANGED <<appVars, cacheVars>>

SpecProc == InitP /\ [][NextP]_vars

InitC == InitCache /\ IdleApp /\ IdleProc

NextC ==
    \/ \E t \in Threads : CacheLookup(t) /\ UNCHANGED <<appVars, procVars>>
    \/ \E t \in Threads : ConstructApplication(t) /\ UNCHANGED <<appVars, procVars>>
    \/ \E t \in Threads : InitializeApplication(t) /\ UNCHANGED <<appVars, procVars>>
    \/ \E t \in Threads : StoreAndReturn(t) /\ UNCHANGED <<appVars, procVars>>

SpecCache == InitC /\ [][NextC]_vars

\* ------------------------------------------------------- properties of Spec

\* C1: after handle(v1), ..., handle(vn) with no reset in between, the
\* accumulator is exactly <<v1, ..., vn>>: every handled violation once per
\* call, in call order, unfiltered and unchanged.
C1_HandleCollectsAll == accumulator = handled

\* The same violation handled twice in a row is stored twice.
C1_Witness ==
    /\ last_op = "handle"
    /\ Len(accumulator) >= 2
    /\ accumulator[Len(accumulator)] = accumulator[Len(accumulator) - 1]

PassiveOps == {"start", "stop", "write", "report_statistics", "report_benchmarks"}

\* C2: nothing is ever opened or written, and start, stop, write (for any line
\* and source), report_statistics and report_benchmarks leave the accumulator
\* and all other adapter state unchanged.
C2_NoOutputNoEffect ==
    /\ [](io_log = {})
    /\ [][last_op' \in PassiveOps => UNCHANGED appState]_vars

\* write was called with a line and a source while violations were held.
C2_Witness ==
    /\ last_op = "write"
    /\ last_arg = <<"E501 line too long", "x = 1">>
    /\ accumulator # <<>>
    /\ io_log = {}

\* C3: run takes the serial path for every job count and every
\* multiprocessing capability; the process pool is never started.
C3_RunAlwaysSerial ==
    file_checker_manager # <<>> =>
        /\ file_checker_manager[1].mode # "parallel"
        /\ last_op = "run" => file_checker_manager[1].mode = "serial"

\* run was called on a manager configured for more than one job.
C3_Witness ==
    /\ last_op = "run"
    /\ file_checker_manager[1].jobs > 1
    /\ file_checker_manager[1].mode = "serial"

\* C6: the accumulator holds exactly the violations handled since the most
\* recent reset, in order; right after a reset it is empty and
\* file_checker_manager is a new manager bound to the context passed to
\* that reset, built from the unchanged guide, args and check_plugins.
C6_ResetIsolatesFiles ==
    /\ [](accumulator = handled)
    /\ [][last_op' = "reset" =>
            /\ accumulator' = <<>>
            /\ file_checker_manager' # <<>>
            /\ file_checker_manager' # file_checker_manager
            /\ file_checker_manager'[1].id >= next_id
            /\ file_checker_manager'[1].context = last_arg'[1]
            /\ file_checker_manager'[1].style_guide = guide
            /\ file_checker_manager'[1].arguments = args
            /\ file_checker_manager'[1].checker_plugins = check_plugins
            /\ file_checker_manager'[1].checkers = <<>>
            /\ UNCHANGED <<guide, args, check_plugins>>]_vars

\* A second reset, for another file, has just replaced a manager.
C6_Witness ==
    /\ last_op = "reset"
    /\ next_id >= 2
    /\ file_checker_manager[1].context = "ctxB"
    /\ accumulator = <<>>

\* --------------------------------------------------- properties of SpecProc

RECURSIVE Flatten(_)
Flatten(ls) == IF ls = <<>> THEN <<>> ELSE Head(ls) \o Flatten(Tail(ls))

\* Every line is non-empty, holds a line feed only as its last character,
\* and every line but the last ends with one.
WellFormedLines(ls) ==
    \A i \in 1..Len(ls) :
        /\ ls[i] # <<>>
        /\ \A k \in 1..(Len(ls[i]) - 1) : ls[i][k] # "LF"
        /\ i < Len(ls) => ls[i][Len(ls[i])] = "LF"

\* C5: the processor takes all its input from the context and leaves it
\* unchanged: build_ast returns context.ast_tree itself, read_lines returns
\* the lines of context.source decoded with the encoding detected from it
\* (their concatenation is the decoded source), file_tokens returns a part of
\* context.tokens, the file named by filename is never read.
C5_ContextIsTheOnlyInput ==
    /\ context = context0
    /\ ~file_read
    /\ p_op = "build_ast" => p_result.tree = context0.ast_tree
    /\ (p_op \in {"__init__", "read_lines"} /\ p_result.error = None) =>
        LET decoded == Decode(context0.source, DetectEncoding(context0.source))
        IN  /\ DetectEncoding(context0.source) # "SyntaxError"
            /\ decoded.error = None
            /\ Flatten(p_result.lines) = decoded.text
            /\ WellFormedLines(p_result.lines)
    /\ (p_op = "file_tokens" /\ p_result.error = None) =>
        \E k \in 0..Len(context0.tokens) :
            p_result.tokens = SubSeq(context0.tokens, k + 1, Len(context0.tokens))

\* read_lines has returned two lines of a Latin-1 source that is not UTF-8.
C5_Witness ==
    /\ p_op = "read_lines"
    /\ p_result.error = None
    /\ context.source = <<"COOKIE_L1", "x0A", "xE9">>
    /\ p_result.lines = <<<<"# coding: latin-1 ", "LF">>, <<"e-acute">>>>
    /\ context.source # disk_file

\* C7: with context.tokens = t0, t1, ..., tn and t0 an ENCODING token,
\* file_tokens returns <<t1, ..., tn>> in order (empty when n = 0), and
\* repeated accesses return equal lists; a first token of another type is an
\* AssertionError and no tokens a StopIteration, with no list returned.
C7_FileTokensStripsLeadingEncoding ==
    p_op = "file_tokens" =>
        LET t == context0.tokens IN
        /\ t = <<>> => p_result.error = "StopIteration"
        /\ (t # <<>> /\ t[1] # "ENCODING") => p_result.error = "AssertionError"
        /\ (t # <<>> /\ t[1] = "ENCODING") =>
            /\ p_result.error = None
            /\ Len(p_result.tokens) = Len(t) - 1
            /\ \A i \in 1..(Len(t) - 1) : p_result.tokens[i] = t[i + 1]
        /\ tokens_seen = {p_result}

\* A second ENCODING token, not the leading one, is kept, in order.
C7_Witness ==
    /\ p_op = "file_tokens"
    /\ context.tokens = <<"ENCODING", "NAME", "ENCODING">>
    /\ p_result = [error |-> None, tokens |-> <<"NAME", "ENCODING">>]

\* -------------------------------------------------- properties of SpecCache

\* C4: in one process, for any number of calls in any interleaving, threads
\* that overlap included, the application is constructed and initialized
\* (with the single argument "--disable-noqa") at most once and every call
\* returns that same instance.
C4_AtMostOneApplication ==
    /\ n_apps <= 1
    /\ Cardinality(returned) <= 1
    /\ \A a \in Apps : initialized[a] \in {<<>>, <<InitializeArgs>>}

====
